---- MODULE Spec2Model ----
(***************************************************************************)
(* The room relay of server/main.go (src/unnamed/part_004, second file):   *)
(* the registry `rooms`, the Room maps, the per-connection handler         *)
(* handleWS with its deferred cleanup, broadcast and sendToUser.           *)
(*                                                                         *)
(* One handler runs per connection handle.  A critical section that only   *)
(* touches the data its locks protect (Lock ... Unlock with no read or     *)
(* write of a connection inside) is one step: the registry lookup, the     *)
(* registration, the deregistration with the removal of the empty room,    *)
(* and the snapshot of broadcast and sendToUser.  The pubkey replay writes *)
(* to the connection while it holds the room's read lock, so its lock,     *)
(* each write and its unlock are steps of their own, and a writer of the   *)
(* room waits for them.  A goroutine spawned by broadcast or sendToUser is *)
(* an element of the bag `inflight` until it performs its write.           *)
(*                                                                         *)
(* A second set of actions takes the same handlers lock by lock: every     *)
(* Lock call, every acquisition and every unlocking section is a step,     *)
(* with the owner of the registry lock and the readers, the writer and the *)
(* waiting writers of each room lock as state.  A third lets the peers     *)
(* close their ends, after which reads and writes on the handle fail.      *)
(***************************************************************************)
EXTENDS Integers, Sequences, FiniteSets, Bags, TLC

\* ------------------------------------------------------------------ bounds

\* Frames the peers send, in total, that the relay loops decode (a read that
\* fails is not counted).
MaxReads == 1

\* ------------------------------------------------------------ input values

Conns == {"c1", "c2", "c3"}
Usernames == {"alice", "bob", "carol"}
RoomIDs == {"A", "B"}
Payloads == {"hi", "yo"}

Before(k, c) == <<k, c>> \in {<<"c1", "c2">>, <<"c1", "c3">>, <<"c2", "c3">>}

\* nil pointer of *Room, nil *websocket.Conn
NoRoom == 0
None == "none"

\* The public key the peer behind a connection handle generated.
KeyOf(c) == "pk-" \o c

\* ---------------------------------------------------------------- envelope

\* WSMessage; the zero value of every field is "".  `error` is the body of the
\* raw text frame written on a username collision, empty in every WSMessage.
WSMessage(t, from, to, roomId, payload, publicKey) ==
    [type |-> t, from |-> from, to |-> to, roomId |-> roomId,
     payload |-> payload, publicKey |-> publicKey, error |-> ""]

UsernameTaken ==
    [type |-> "", from |-> "", to |-> "", roomId |-> "",
     payload |-> "", publicKey |-> "", error |-> "Username taken in this room"]

\* What conn.ReadJSON can return: an error (peer closed, undecodable JSON) or a
\* decoded envelope.
ReadResult(err, msg) == [err |-> err, msg |-> msg]

ReadError == ReadResult(TRUE, WSMessage("", "", "", "", "", ""))

\* First frames the peer behind connection c may send.  Usernames and room
\* ids are interchangeable, so the first connection's are fixed; the others
\* pick the same or another.
NamesOf(c) == IF c = "c1" THEN {"alice"} ELSE {"alice", "bob"}

RoomIDsOf(c) == IF c = "c1" THEN {"A"} ELSE RoomIDs

JoinInputs(c) ==
    {ReadError}
    \cup {ReadResult(FALSE, WSMessage(t, f, "", r, "", k)) :
            t \in {"join", "chat"}, f \in NamesOf(c) \cup {""},
            r \in RoomIDsOf(c) \cup {""}, k \in {"", KeyOf(c)}}

\* The sender names a peer may put in a chat: none, or one member's name
\* (its own when it is that member, another's when it is not).
ClaimedNames == {"", "alice"}

\* A second join request, for the other room under another name and key.
Rejoin == WSMessage("join", "bob", "", "B", "", "pk-new")

\* Frames a peer may send once Active.
RelayInputs ==
    {ReadError}
    \cup {ReadResult(FALSE, WSMessage("chat", f, t, "", p, "")) :
            f \in ClaimedNames, t \in Usernames \cup {""},
            p \in Payloads \cup {""}}
    \cup {ReadResult(FALSE, WSMessage(t, "", "", "", "", "")) :
            t \in {"clear", "join", "leave"}}
    \cup {ReadResult(FALSE, Rejoin)}

\* ------------------------------------------------------------------- state

VARIABLES
    mu,         \* the handler inside mu.Lock() ... mu.Unlock(), None when free
    rooms,      \* registry: room id -> index into heap, NoRoom when absent
    heap,       \* every Room allocated: [clients, publicKeys] and the state
                \* of its mu: [readers, writer, waiting]
    pc,         \* handler position per connection
    conn,       \* connection handle: "nil", "open", "gone" (the peer closed
                \* its end), "closed" (conn.Close() was called)
    room,       \* handler local `room`
    username,   \* handler local `username`
    roomID,     \* handler local `roomID`
    join,       \* handler local `join` (the first envelope read)
    todo,       \* names the pubkey replay has still to range over
    frames,     \* frames the peers have still to send to the relay loops
    inflight,   \* bag of spawned deliveries [to, msg] not yet written
    writing,    \* bag of the calls of WriteJSON in progress: [to, msg, by]
    wire        \* per connection, the frames written to it, in order

vars == <<mu, rooms, heap, pc, conn, room, username, roomID, join, todo, frames,
          inflight, writing, wire>>

locals == <<room, username, roomID, join, todo>>

ZeroMsg == WSMessage("", "", "", "", "", "")

\* The state before any connection is accepted; the peers in `arriving` will
\* connect and the peers will send `n` frames to the relay loops.
Fresh(arriving, n) ==
    /\ mu = None
    /\ rooms = [id \in RoomIDs |-> NoRoom]
    /\ heap = <<>>
    /\ pc = [c \in Conns |-> IF c \in arriving THEN "connecting" ELSE "absent"]
    /\ conn = [c \in Conns |-> "nil"]
    /\ room = [c \in Conns |-> NoRoom]
    /\ username = [c \in Conns |-> ""]
    /\ roomID = [c \in Conns |-> ""]
    /\ join = [c \in Conns |-> ZeroMsg]
    /\ todo = [c \in Conns |-> {}]
    /\ frames = n
    /\ inflight = EmptyBag
    /\ writing = EmptyBag
    /\ wire = [c \in Conns |-> <<>>]

\* Two connections, with relay traffic.
Init == Fresh({"c1", "c2"}, MaxReads)

\* Three connections that join and leave, with no relay traffic.
InitThree == Fresh(Conns, 0)

\* Who sits where once the three peers have registered, one after the other
\* in the order of their names: all three in room A, or the third as a second
\* alice in room B.
Seatings ==
    {[c \in Conns |-> [from |-> n[c], roomId |-> "A"]] :
        n \in {[c1 |-> "alice", c2 |-> "bob", c3 |-> "carol"]}}
    \cup {[c1 |-> [from |-> "alice", roomId |-> "A"],
           c2 |-> [from |-> "bob", roomId |-> "A"],
           c3 |-> [from |-> "alice", roomId |-> "B"]]}

AcceptOrder == <<"c1", "c2", "c3">>

\* The last to register, whose handler has not announced the join yet.
Newcomer == "c3"

\* The state those joins leave behind, with every frame written: the handlers
\* in their relay loops, but for the newcomers, which have registered and not
\* announced their joins yet.
Seated(seat, newcomers, n) ==
    LET ids == {seat[c].roomId : c \in Conns}
        index(id) == IF id = "A" THEN 1 ELSE 2
        members(id) == {c \in Conns : seat[c].roomId = id}
        roomOf(id) ==
            [clients |-> [c \in members(id) |-> seat[c].from],
             publicKeys |-> [u \in {seat[c].from : c \in members(id)} |->
                 KeyOf(CHOOSE c \in members(id) : seat[c].from = u)],
             readers |-> {}, writer |-> None, waiting |-> {}]
        earlier(c) ==
            LET T(k) == Before(k, c) /\ seat[k].roomId = seat[c].roomId
            IN  SelectSeq(AcceptOrder, T)
        later(c) ==
            LET T(k) == /\ Before(c, k)
                        /\ seat[k].roomId = seat[c].roomId
                        /\ k \notin newcomers
            IN  SelectSeq(AcceptOrder, T)
        frame(t, k) ==
            WSMessage(t, seat[k].from, "", seat[k].roomId, "", KeyOf(k))
    IN  /\ mu = None
        /\ rooms = [id \in RoomIDs |-> IF id \in ids THEN index(id) ELSE NoRoom]
        /\ heap = [i \in 1..Cardinality(ids) |->
                     roomOf(CHOOSE id \in ids : index(id) = i)]
        /\ pc = [c \in Conns |-> IF c \in newcomers THEN "announce" ELSE "relay"]
        /\ conn = [c \in Conns |-> "open"]
        /\ room = [c \in Conns |-> index(seat[c].roomId)]
        /\ username = [c \in Conns |-> seat[c].from]
        /\ roomID = [c \in Conns |-> seat[c].roomId]
        /\ join = [c \in Conns |->
                     WSMessage("join", seat[c].from, "", seat[c].roomId, "", KeyOf(c))]
        /\ todo = [c \in Conns |-> {}]
        /\ frames = n
        /\ inflight = EmptyBag
        /\ writing = EmptyBag
        /\ wire = [c \in Conns |->
                     IF c \in newcomers THEN <<>>
                     ELSE [i \in 1..Len(earlier(c)) |-> frame("pubkey", earlier(c)[i])]
                          \o [i \in 1..Len(later(c)) |-> frame("join", later(c)[i])]]

\* Three connections in their relay loops, with relay traffic.
InitRelay == \E seat \in Seatings : Seated(seat, {}, MaxReads)

\* Two connections in their relay loops and a third just registered, with no
\* relay traffic.
InitJoin == \E seat \in Seatings : Seated(seat, {Newcomer}, 0)

\* ----------------------------------------------------------------- helpers

MapPut(f, k, v) == [x \in DOMAIN f \cup {k} |-> IF x = k THEN v ELSE f[x]]

MapDelete(f, k) == [x \in DOMAIN f \ {k} |-> f[x]]

\* &Room{publicKeys: make(...), clients: make(...)} with the zero value of
\* its mu: `readers` hold mu.RLock(), `writer` holds mu.Lock(), `waiting` have
\* called mu.Lock() and wait for it
NewRoom ==
    [clients |-> <<>>, publicKeys |-> <<>>,
     readers |-> {}, writer |-> None, waiting |-> {}]

\* room.mu.Lock() succeeds once no reader and no writer holds the lock
CanLock(r) == heap[r].readers = {} /\ heap[r].writer = None

\* room.mu.RLock() succeeds while no writer holds the lock and none waits for
\* it (sync.RWMutex: a blocked Lock call keeps new readers out)
CanRLock(r) == heap[r].writer = None /\ heap[r].waiting = {}

\* A handshake test that does not look at the type of the first frame.
ValidJoinAnyType(res) ==
    /\ ~res.err
    /\ res.msg.from # ""
    /\ res.msg.publicKey # ""
    /\ res.msg.roomId # ""

\* The handshake condition of handleWS (the negation of its early return).
ValidJoin(res) ==
    /\ ~res.err
    /\ res.msg.type = "join"
    /\ res.msg.from # ""
    /\ res.msg.publicKey # ""
    /\ res.msg.roomId # ""

\* A collision test that looks the name up in the wrong map: `clients` is
\* keyed by connection handle, so no username is ever found there.
UsernameExistsInClients(r, u) == u \in DOMAIN heap[r].clients

\* A collision test that never lets a name go: it also finds the names of
\* the handlers that ended in the room.
UsernameExistsOrLeft(r, u) ==
    \/ u \in DOMAIN heap[r].publicKeys
    \/ \E k \in Conns : pc[k] = "done" /\ room[k] = r /\ username[k] = u

\* `if _, exists := room.publicKeys[username]; exists`
UsernameExists(r, u) == u \in DOMAIN heap[r].publicKeys

\* `if _, ok := room.clients[conn]; ok`
IsClient(r, c) == c \in DOMAIN heap[r].clients

\* The deferred cleanup's outer condition: where a returning handler goes.
AfterReturn(c) ==
    IF room[c] # NoRoom /\ username[c] # "" THEN "deregister" ELSE "done"

\* A snapshot that forgets the exclusion.
ConnectionsAll(r, exclude) == DOMAIN heap[r].clients

\* broadcast: the snapshot `connections` of room r without `exclude`
Connections(r, exclude) == {k \in DOMAIN heap[r].clients : k # exclude}

\* A broadcast to the members of every room, as if there were one global map.
BroadcastEverywhere(r, exclude, m) ==
    SetToBag({[to |-> k, msg |-> m] :
        k \in {x \in Conns : \E i \in 1..Len(heap) :
                  x \in DOMAIN heap[i].clients /\ x # exclude}})

\* A broadcast that takes a nil room to mean every room.
BroadcastNilEverywhere(r, exclude, m) ==
    IF r = NoRoom THEN BroadcastEverywhere(r, exclude, m)
    ELSE SetToBag({[to |-> k, msg |-> m] : k \in Connections(r, exclude)})

\* broadcast: one goroutine per snapshot entry; a nil room spawns none
Broadcast(r, exclude, m) ==
    IF r = NoRoom THEN EmptyBag
    ELSE SetToBag({[to |-> k, msg |-> m] : k \in Connections(r, exclude)})

\* A lookup over the members of every room, as if there were one global map.
TargetsEverywhere(r, u) ==
    {k \in Conns : \E i \in 1..Len(heap) :
        k \in DOMAIN heap[i].clients /\ heap[i].clients[k] = u}

\* sendToUser: the connections whose name matches; the loop keeps the first
\* one the map iteration yields
Targets(r, u) ==
    IF r = NoRoom THEN {}
    ELSE {k \in DOMAIN heap[r].clients : heap[r].clients[k] = u}

\* sendToUser: the goroutine spawned for targetConn, none when it is nil
SendTo(targetConn, m) ==
    IF targetConn = None THEN EmptyBag
    ELSE SetToBag({[to |-> targetConn, msg |-> m]})

\* The envelopes handleWS builds.
JoinEnvelope(c) ==
    WSMessage("join", username[c], "", roomID[c], "", join[c].publicKey)

\* A replay frame that carries the key of the joiner in place of the key
\* stored under the name.
PubkeyEnvelopeOwnKey(c, name) ==
    WSMessage("pubkey", name, "", roomID[c], "", join[c].publicKey)

PubkeyEnvelope(c, name) ==
    WSMessage("pubkey", name, "", roomID[c], "", heap[room[c]].publicKeys[name])

\* A relayed chat that keeps the sender name of the inbound envelope.
ChatEnvelopeAsSent(c, m) ==
    WSMessage("chat", m.from, "", roomID[c], m.payload, "")

ChatEnvelope(c, m) ==
    WSMessage("chat", username[c], "", roomID[c], m.payload, "")

ClearEnvelope(c) == WSMessage("clear", "", "", roomID[c], "", "")

\* A leave announcement that does not say who left.
LeaveEnvelopeAnonymous(c) == WSMessage("leave", "", "", "", "", "")

LeaveEnvelope(c) == WSMessage("leave", username[c], "", "", "", "")

\* A write on a connection handle: appended to the frames the handle carried
\* to its peer, or an error (ignored by every caller) once it is closed.
Written(c, m) ==
    IF conn[c] = "open" THEN [wire EXCEPT ![c] = Append(@, m)] ELSE wire

\* The server accepts the connections in the order of their names (handles
\* are interchangeable, so this fixes one representative of each accept order).
Accepted(c) == \A k \in Conns : Before(k, c) => pc[k] # "connecting"

\* ----------------------------------------------------------------- actions

\* An upgrade whose error is not looked at: the handler goes on to the
\* handshake with or without a handle.
UpgradeUnchecked(c) ==
    /\ pc[c] = "connecting"
    /\ Accepted(c)
    /\ \E ok \in BOOLEAN :
        conn' = IF ok THEN [conn EXCEPT ![c] = "open"] ELSE conn
    /\ pc' = [pc EXCEPT ![c] = "awaitJoin"]
    /\ UNCHANGED <<mu, writing, rooms, heap, locals, frames, inflight, wire>>

\* upgrader.Upgrade: a handle, or an error and the handler returns
Upgrade(c) ==
    /\ pc[c] = "connecting"
    /\ Accepted(c)
    /\ \E ok \in BOOLEAN :
        IF ok
        THEN /\ conn' = [conn EXCEPT ![c] = "open"]
             /\ pc' = [pc EXCEPT ![c] = "awaitJoin"]
        ELSE /\ conn' = conn
             /\ pc' = [pc EXCEPT ![c] = "done"]
    /\ UNCHANGED <<mu, writing, rooms, heap, locals, frames, inflight, wire>>

\* the first conn.ReadJSON returned res: the handshake test
ReadJoinFrame(c, res) ==
    /\ pc[c] = "awaitJoin"
    /\ IF ValidJoin(res)
       THEN /\ join' = [join EXCEPT ![c] = res.msg]
            /\ username' = [username EXCEPT ![c] = res.msg.from]
            /\ roomID' = [roomID EXCEPT ![c] = res.msg.roomId]
            /\ pc' = [pc EXCEPT ![c] = "resolve"]
       ELSE /\ pc' = [pc EXCEPT ![c] = AfterReturn(c)]
            /\ UNCHANGED <<join, username, roomID>>
    /\ UNCHANGED <<mu, writing, rooms, heap, conn, room, todo, frames, inflight, wire>>

ReadJoin(c) == \E res \in JoinInputs(c) : ReadJoinFrame(c, res)

\* A lookup that ignores the room id of the join: one room for everybody.
ResolveShared(c) ==
    /\ pc[c] = "resolve"
    /\ IF rooms["A"] # NoRoom
       THEN /\ room' = [room EXCEPT ![c] = rooms["A"]]
            /\ UNCHANGED <<mu, writing, rooms, heap>>
       ELSE /\ heap' = Append(heap, NewRoom)
            /\ room' = [room EXCEPT ![c] = Len(heap) + 1]
            /\ rooms' = [rooms EXCEPT !["A"] = Len(heap) + 1]
    /\ pc' = [pc EXCEPT ![c] = "register"]
    /\ UNCHANGED <<mu, writing, conn, username, roomID, join, todo, frames, inflight, wire>>

\* mu.Lock(); get or create the room; mu.Unlock()
Resolve(c) ==
    /\ pc[c] = "resolve"
    /\ mu = None
    /\ IF rooms[roomID[c]] # NoRoom
       THEN /\ room' = [room EXCEPT ![c] = rooms[roomID[c]]]
            /\ UNCHANGED <<mu, writing, rooms, heap>>
       ELSE /\ heap' = Append(heap, NewRoom)
            /\ room' = [room EXCEPT ![c] = Len(heap) + 1]
            /\ rooms' = [rooms EXCEPT ![roomID[c]] = Len(heap) + 1]
    /\ pc' = [pc EXCEPT ![c] = "register"]
    /\ UNCHANGED <<mu, writing, conn, username, roomID, join, todo, frames, inflight, wire>>

\* room.mu.Lock(); the username check, then either the rejection or the
\* registration; room.mu.Unlock()
Register(c) ==
    /\ pc[c] = "register"
    /\ CanLock(room[c])
    /\ IF UsernameExists(room[c], username[c])
       THEN /\ heap' = heap
            /\ pc' = [pc EXCEPT ![c] = "rejected"]
       ELSE /\ heap' = [heap EXCEPT
                  ![room[c]].clients = MapPut(@, c, username[c]),
                  ![room[c]].publicKeys = MapPut(@, username[c], join[c].publicKey)]
            /\ pc' = [pc EXCEPT ![c] = "announce"]
    /\ UNCHANGED <<mu, writing, rooms, conn, locals, frames, inflight, wire>>

\* A rejection that also tells the members of the room about it.
RejectAnnounced(c) ==
    /\ pc[c] = "rejected"
    /\ wire' = Written(c, UsernameTaken)
    /\ inflight' = inflight (+) Broadcast(room[c], c, UsernameTaken)
    /\ pc' = [pc EXCEPT ![c] = AfterReturn(c)]
    /\ UNCHANGED <<mu, writing, rooms, heap, conn, locals, frames>>

\* conn.WriteMessage of the collision notice, then return
Reject(c) ==
    /\ pc[c] = "rejected"
    /\ wire' = Written(c, UsernameTaken)
    /\ pc' = [pc EXCEPT ![c] = AfterReturn(c)]
    /\ UNCHANGED <<mu, writing, rooms, heap, conn, locals, frames, inflight>>

\* A join announced to the whole room, the joiner included.
AnnounceAll(c) ==
    /\ pc[c] = "announce"
    /\ inflight' = inflight (+) Broadcast(room[c], None, JoinEnvelope(c))
    /\ pc' = [pc EXCEPT ![c] = "replayLock"]
    /\ UNCHANGED <<mu, writing, rooms, heap, conn, locals, frames, wire>>

\* broadcast(room, conn, join announcement)
Announce(c) ==
    /\ pc[c] = "announce"
    /\ inflight' = inflight (+) Broadcast(room[c], c, JoinEnvelope(c))
    /\ pc' = [pc EXCEPT ![c] = "replayLock"]
    /\ UNCHANGED <<mu, writing, rooms, heap, conn, locals, frames, wire>>

\* room.mu.RLock() before the replay; the range is over the map as it is now
ReplayLock(c) ==
    /\ pc[c] = "replayLock"
    /\ heap' = [heap EXCEPT ![room[c]].readers = @ \cup {c}]
    /\ todo' = [todo EXCEPT ![c] = DOMAIN heap[room[c]].publicKeys]
    /\ pc' = [pc EXCEPT ![c] = "replay"]
    /\ UNCHANGED <<mu, writing, rooms, conn, room, username, roomID, join, frames, inflight, wire>>

\* one iteration of the replay loop, in the map's iteration order
ReplayNext(c) ==
    /\ pc[c] = "replay"
    /\ \E name \in todo[c] :
        /\ todo' = [todo EXCEPT ![c] = @ \ {name}]
        /\ wire' = IF name # username[c]
                   THEN Written(c, PubkeyEnvelope(c, name))
                   ELSE wire
    /\ UNCHANGED <<mu, writing, rooms, heap, pc, conn, room, username, roomID, join, frames,
                   inflight>>

\* A replay that may be left before its range is over.
ReplayUnlockEarly(c) ==
    /\ pc[c] = "replay"
    /\ heap' = [heap EXCEPT ![room[c]].readers = @ \ {c}]
    /\ todo' = [todo EXCEPT ![c] = {}]
    /\ pc' = [pc EXCEPT ![c] = "relay"]
    /\ UNCHANGED <<mu, writing, rooms, conn, room, username, roomID, join, frames,
                   inflight, wire>>

\* room.mu.RUnlock() after the replay
ReplayUnlock(c) ==
    /\ pc[c] = "replay"
    /\ todo[c] = {}
    /\ heap' = [heap EXCEPT ![room[c]].readers = @ \ {c}]
    /\ pc' = [pc EXCEPT ![c] = "relay"]
    /\ UNCHANGED <<mu, writing, rooms, conn, locals, frames, inflight, wire>>

\* A lookup that falls back to some member of the room when nobody has the
\* name.
TargetConnOrAnyone(r, u) ==
    IF Targets(r, u) # {} THEN Targets(r, u)
    ELSE IF r = NoRoom \/ DOMAIN heap[r].clients = {} THEN {None}
    ELSE DOMAIN heap[r].clients

\* sendToUser: the values `targetConn` can have after the lookup loop
TargetConn(r, u) == IF Targets(r, u) = {} THEN {None} ELSE Targets(r, u)

\* A dispatch whose clear spares the connection that asked for it.
RouteClearToOthers(c, m, targetConn) ==
    IF m.type = "chat" /\ m.payload # ""
    THEN (IF m.to # ""
          THEN SendTo(targetConn, ChatEnvelope(c, m))
          ELSE EmptyBag)
    ELSE (IF m.type = "clear"
          THEN Broadcast(room[c], c, ClearEnvelope(c))
          ELSE EmptyBag)

\* the dispatch of the relay loop on a decoded envelope m, with targetConn
\* what sendToUser's lookup of m.to found: the goroutines it spawns
Route(c, m, targetConn) ==
    IF m.type = "chat" /\ m.payload # ""
    THEN (IF m.to # ""
          THEN SendTo(targetConn, ChatEnvelope(c, m))
          ELSE EmptyBag)
    ELSE (IF m.type = "clear"
          THEN Broadcast(room[c], None, ClearEnvelope(c))
          ELSE EmptyBag)

\* A relay loop that takes a join request for another handshake: it looks the
\* room up, creating it when there is none, and registers the connection
\* there under the name and key of the request.
RelayFrameRejoin(c, res) ==
    /\ pc[c] = "relay"
    /\ IF res.err
       THEN /\ pc' = [pc EXCEPT ![c] = AfterReturn(c)]
            /\ UNCHANGED <<frames, inflight, rooms, heap>>
       ELSE /\ frames > 0
            /\ frames' = frames - 1
            /\ pc' = pc
            /\ \E targetConn \in TargetConn(room[c], res.msg.to) :
                  inflight' = inflight (+) Route(c, res.msg, targetConn)
            /\ IF ValidJoin(res)
               THEN LET id == res.msg.roomId
                        new == rooms[id] = NoRoom
                        h == IF new THEN Append(heap, NewRoom) ELSE heap
                        r == IF new THEN Len(heap) + 1 ELSE rooms[id]
                    IN  /\ rooms' = [rooms EXCEPT ![id] = r]
                        /\ heap' = [h EXCEPT
                              ![r].clients = MapPut(@, c, res.msg.from),
                              ![r].publicKeys =
                                  MapPut(@, res.msg.from, res.msg.publicKey)]
               ELSE UNCHANGED <<rooms, heap>>
    /\ UNCHANGED <<mu, writing, conn, locals, wire>>

\* one iteration of the relay loop in which conn.ReadJSON returned res
RelayFrame(c, res) ==
    /\ pc[c] = "relay"
    /\ IF res.err
       THEN /\ pc' = [pc EXCEPT ![c] = AfterReturn(c)]
            /\ UNCHANGED <<frames, inflight>>
       ELSE /\ frames > 0
            /\ frames' = frames - 1
            /\ pc' = pc
            /\ \E targetConn \in TargetConn(room[c], res.msg.to) :
                  inflight' = inflight (+) Route(c, res.msg, targetConn)
    /\ UNCHANGED <<mu, writing, rooms, heap, conn, locals, wire>>

Relay(c) == \E res \in RelayInputs : RelayFrame(c, res)

\* A handler that ends without any cleanup.
DeregisterNothing(c) ==
    /\ pc[c] = "deregister"
    /\ pc' = [pc EXCEPT ![c] = "done"]
    /\ UNCHANGED <<mu, writing, rooms, heap, conn, locals, frames, inflight, wire>>

\* A cleanup that leaves the registry alone when the room became empty.
DeregisterKeepRoom(c) ==
    /\ pc[c] = "deregister"
    /\ CanLock(room[c])
    /\ IF IsClient(room[c], c)
       THEN /\ heap' = [heap EXCEPT
                  ![room[c]].clients = MapDelete(@, c),
                  ![room[c]].publicKeys = MapDelete(@, username[c])]
            /\ pc' = [pc EXCEPT ![c] = "close"]
       ELSE /\ heap' = heap
            /\ pc' = [pc EXCEPT ![c] = "done"]
    /\ UNCHANGED <<mu, writing, rooms, conn, locals, frames, inflight, wire>>

\* A cleanup without the membership test: it deletes whatever it finds under
\* the handler's handle, name and room id.
CleanupUnchecked(c, h, rg) ==
    LET clients == MapDelete(h[room[c]].clients, c)
        keys == MapDelete(h[room[c]].publicKeys, username[c])
    IN  [heap |-> [h EXCEPT ![room[c]].clients = clients,
                            ![room[c]].publicKeys = keys],
         rooms |-> IF Cardinality(DOMAIN clients) = 0
                   THEN [rg EXCEPT ![roomID[c]] = NoRoom]
                   ELSE rg,
         removed |-> TRUE]

\* A cleanup that takes the handle out of `clients` and leaves the key of its
\* username behind.
CleanupKeepKey(c, h, rg) ==
    IF c \in DOMAIN h[room[c]].clients
    THEN LET clients == MapDelete(h[room[c]].clients, c)
         IN  [heap |-> [h EXCEPT ![room[c]].clients = clients],
              rooms |-> IF Cardinality(DOMAIN clients) = 0
                        THEN [rg EXCEPT ![roomID[c]] = NoRoom]
                        ELSE rg,
              removed |-> TRUE]
    ELSE [heap |-> h, rooms |-> rg, removed |-> FALSE]

\* The critical section of the deferred cleanup of handler c, run on the Room
\* values h and the registry rg: the membership test, the two deletes and,
\* when the room became empty, delete(rooms, roomID).  `removed` tells
\* whether the handle was a member (conn.Close() and the leave follow).
Cleanup(c, h, rg) ==
    IF c \in DOMAIN h[room[c]].clients
    THEN LET clients == MapDelete(h[room[c]].clients, c)
             keys == MapDelete(h[room[c]].publicKeys, username[c])
         IN  [heap |-> [h EXCEPT ![room[c]].clients = clients,
                                 ![room[c]].publicKeys = keys],
              rooms |-> IF Cardinality(DOMAIN clients) = 0
                        THEN [rg EXCEPT ![roomID[c]] = NoRoom]
                        ELSE rg,
              removed |-> TRUE]
    ELSE [heap |-> h, rooms |-> rg, removed |-> FALSE]

\* deferred cleanup: room.mu.Lock(); the membership test, the two deletes
\* and, when the room became empty, mu.Lock(); delete(rooms, roomID);
\* mu.Unlock(); then room.mu.Unlock()
Deregister(c) ==
    /\ pc[c] = "deregister"
    /\ CanLock(room[c])
    /\ LET after == Cleanup(c, heap, rooms)
       IN  /\ after.rooms # rooms => mu = None
           /\ heap' = after.heap
           /\ rooms' = after.rooms
           /\ pc' = [pc EXCEPT ![c] = IF after.removed THEN "close" ELSE "done"]
    /\ UNCHANGED <<mu, writing, conn, locals, frames, inflight, wire>>

\* deferred cleanup: conn.Close(); a closed handle carries nothing any more
Close(c) ==
    /\ pc[c] = "close"
    /\ conn' = [conn EXCEPT ![c] = "closed"]
    /\ wire' = [wire EXCEPT ![c] = <<>>]
    /\ pc' = [pc EXCEPT ![c] = "leave"]
    /\ UNCHANGED <<mu, writing, rooms, heap, locals, frames, inflight>>

\* deferred cleanup: broadcast(room, conn, leave envelope)
Leave(c) ==
    /\ pc[c] = "leave"
    /\ inflight' = inflight (+) Broadcast(room[c], c, LeaveEnvelope(c))
    /\ pc' = [pc EXCEPT ![c] = "done"]
    /\ UNCHANGED <<mu, writing, rooms, heap, conn, locals, frames, wire>>

\* the goroutine d of broadcast or sendToUser performs its c.WriteJSON(msg)
\* Sends performed one after the other by a loop that gives up at the first
\* write that fails: the failure takes the other sends of the envelope along.
DeliverOneOrAbort(d) ==
    /\ BagIn(d, inflight)
    /\ inflight' =
          IF conn[d.to] = "open" THEN inflight (-) SetToBag({d})
          ELSE LET rest == {x \in BagToSet(inflight) : x.msg # d.msg}
               IN  [x \in rest |-> inflight[x]]
    /\ wire' = Written(d.to, d.msg)
    /\ UNCHANGED <<mu, writing, rooms, heap, pc, conn, locals, frames>>

\* A delivery that takes a failed write for a disconnect: it removes the
\* recipient from the rooms it is in.
DeliverOneOrDrop(d) ==
    /\ BagIn(d, inflight)
    /\ inflight' = inflight (-) SetToBag({d})
    /\ wire' = Written(d.to, d.msg)
    /\ heap' = IF conn[d.to] = "open" THEN heap
               ELSE [r \in DOMAIN heap |->
                       [heap[r] EXCEPT !.clients = MapDelete(@, d.to)]]
    /\ UNCHANGED <<mu, writing, rooms, pc, conn, locals, frames>>

DeliverOne(d) ==
    /\ BagIn(d, inflight)
    /\ inflight' = inflight (-) SetToBag({d})
    /\ wire' = Written(d.to, d.msg)
    /\ UNCHANGED <<mu, writing, rooms, heap, pc, conn, locals, frames>>

Deliver == \E d \in BagToSet(inflight) : DeliverOne(d)

Handler(c) ==
    \/ Upgrade(c)
    \/ ReadJoin(c)
    \/ Resolve(c)
    \/ Register(c)
    \/ Reject(c)
    \/ Announce(c)
    \/ ReplayLock(c)
    \/ ReplayNext(c)
    \/ ReplayUnlock(c)
    \/ Relay(c)
    \/ Deregister(c)
    \/ Close(c)
    \/ Leave(c)

Next == (\E c \in Conns : Handler(c)) \/ Deliver

Spec == Init /\ [][Next]_vars

SpecThree == InitThree /\ [][Next]_vars

\* The handlers from their relay loops on.
NextRelay ==
    \/ \E c \in Conns : Relay(c) \/ Deregister(c) \/ Close(c) \/ Leave(c)
    \/ Deliver

SpecRelay == InitRelay /\ [][NextRelay]_vars

\* The handlers from the registration on.
NextJoin ==
    \/ \E c \in Conns :
          \/ Announce(c)
          \/ ReplayLock(c)
          \/ ReplayNext(c)
          \/ ReplayUnlock(c)
          \/ Relay(c)
          \/ Deregister(c)
          \/ Close(c)
          \/ Leave(c)
    \/ Deliver

SpecJoin == InitJoin /\ [][NextJoin]_vars

\* ------------------------------------------------- the handlers, lock by lock

\* The same handlers with every Lock and Unlock a step of its own: mu.Lock()
\* and room.mu.Lock() wait for the lock, and a critical section ends with the
\* step that unlocks.

\* mu.Lock() of the join path
LockRegistry(c) ==
    /\ pc[c] = "resolve"
    /\ mu = None
    /\ mu' = c
    /\ pc' = [pc EXCEPT ![c] = "resolving"]
    /\ UNCHANGED <<writing, rooms, heap, conn, locals, frames, inflight, wire>>

\* A lookup that returns without mu.Unlock(): the join goes on to the room
\* lock with the registry lock in its hands.
GetOrCreateKeepLock(c) ==
    /\ pc[c] = "resolving"
    /\ IF rooms[roomID[c]] # NoRoom
       THEN /\ room' = [room EXCEPT ![c] = rooms[roomID[c]]]
            /\ UNCHANGED <<rooms, heap>>
       ELSE /\ heap' = Append(heap, NewRoom)
            /\ room' = [room EXCEPT ![c] = Len(heap) + 1]
            /\ rooms' = [rooms EXCEPT ![roomID[c]] = Len(heap) + 1]
    /\ pc' = [pc EXCEPT ![c] = "register"]
    /\ UNCHANGED <<mu, writing, conn, username, roomID, join, todo, frames, inflight, wire>>

\* get or create the room; mu.Unlock()
GetOrCreate(c) ==
    /\ pc[c] = "resolving"
    /\ IF rooms[roomID[c]] # NoRoom
       THEN /\ room' = [room EXCEPT ![c] = rooms[roomID[c]]]
            /\ UNCHANGED <<rooms, heap>>
       ELSE /\ heap' = Append(heap, NewRoom)
            /\ room' = [room EXCEPT ![c] = Len(heap) + 1]
            /\ rooms' = [rooms EXCEPT ![roomID[c]] = Len(heap) + 1]
    /\ mu' = None
    /\ pc' = [pc EXCEPT ![c] = "register"]
    /\ UNCHANGED <<writing, conn, username, roomID, join, todo, frames, inflight, wire>>

\* room.mu.Lock() is called, by the registration or by the cleanup
CallLock(c) ==
    /\ pc[c] \in {"register", "deregister"}
    /\ heap' = [heap EXCEPT ![room[c]].waiting = @ \cup {c}]
    /\ pc' = [pc EXCEPT ![c] =
                 IF pc[c] = "register" THEN "registerWait" ELSE "cleanupWait"]
    /\ UNCHANGED <<mu, writing, rooms, conn, locals, frames, inflight, wire>>

\* room.mu.Lock() returns
Lock(c) ==
    /\ pc[c] \in {"registerWait", "cleanupWait"}
    /\ CanLock(room[c])
    /\ heap' = [heap EXCEPT ![room[c]].writer = c,
                            ![room[c]].waiting = @ \ {c}]
    /\ pc' = [pc EXCEPT ![c] =
                 IF pc[c] = "registerWait" THEN "registering" ELSE "cleaning"]
    /\ UNCHANGED <<mu, writing, rooms, conn, locals, frames, inflight, wire>>

\* the username check, then the rejection or the registration, each ending
\* with room.mu.Unlock()
RegisterLocked(c) ==
    /\ pc[c] = "registering"
    /\ IF UsernameExists(room[c], username[c])
       THEN /\ heap' = [heap EXCEPT ![room[c]].writer = None]
            /\ pc' = [pc EXCEPT ![c] = "rejected"]
       ELSE /\ heap' = [heap EXCEPT
                  ![room[c]].clients = MapPut(@, c, username[c]),
                  ![room[c]].publicKeys = MapPut(@, username[c], join[c].publicKey),
                  ![room[c]].writer = None]
            /\ pc' = [pc EXCEPT ![c] = "announce"]
    /\ UNCHANGED <<mu, writing, rooms, conn, locals, frames, inflight, wire>>

\* A cleanup that always unlocks the room before it goes for the registry.
CleanupLockedHandOver(c) ==
    /\ pc[c] = "cleaning"
    /\ LET after == Cleanup(c, heap, rooms)
           empty == DOMAIN after.heap[room[c]].clients = {}
       IN  /\ heap' = [after.heap EXCEPT ![room[c]].writer = None]
           /\ pc' = [pc EXCEPT ![c] =
                        IF after.removed /\ empty THEN "removeWait"
                        ELSE IF after.removed THEN "close" ELSE "done"]
    /\ UNCHANGED <<mu, writing, rooms, conn, locals, frames, inflight, wire>>

\* deferred cleanup under room.mu: the membership test and the two deletes;
\* room.mu.Unlock() unless the room became empty, and then mu.Lock() is next
CleanupLocked(c) ==
    /\ pc[c] = "cleaning"
    /\ LET after == Cleanup(c, heap, rooms)
           empty == DOMAIN after.heap[room[c]].clients = {}
       IN  IF after.removed /\ empty
           THEN /\ heap' = after.heap
                /\ pc' = [pc EXCEPT ![c] = "removeWait"]
           ELSE /\ heap' = [after.heap EXCEPT ![room[c]].writer = None]
                /\ pc' = [pc EXCEPT ![c] =
                             IF after.removed THEN "close" ELSE "done"]
    /\ UNCHANGED <<mu, writing, rooms, conn, locals, frames, inflight, wire>>

\* mu.Lock() of the cleanup, inside room.mu
LockRegistryInCleanup(c) ==
    /\ pc[c] = "removeWait"
    /\ mu = None
    /\ mu' = c
    /\ pc' = [pc EXCEPT ![c] = "removing"]
    /\ UNCHANGED <<writing, rooms, heap, conn, locals, frames, inflight, wire>>

\* A removal that unlocks and leaves the registry entry where it is.
RemoveRoomForgotten(c) ==
    /\ pc[c] = "removing"
    /\ mu' = None
    /\ heap' = [heap EXCEPT ![room[c]].writer = None]
    /\ pc' = [pc EXCEPT ![c] = "close"]
    /\ UNCHANGED <<writing, rooms, conn, locals, frames, inflight, wire>>

\* delete(rooms, roomID); mu.Unlock(); room.mu.Unlock()
RemoveRoom(c) ==
    /\ pc[c] = "removing"
    /\ rooms' = [rooms EXCEPT ![roomID[c]] = NoRoom]
    /\ mu' = None
    /\ heap' = [heap EXCEPT ![room[c]].writer = None]
    /\ pc' = [pc EXCEPT ![c] = "close"]
    /\ UNCHANGED <<writing, conn, locals, frames, inflight, wire>>

\* broadcast and the replay take room.mu.RLock()
AnnounceRLock(c) == Announce(c) /\ CanRLock(room[c])

ReplayRLock(c) == ReplayLock(c) /\ CanRLock(room[c])

LeaveRLock(c) == Leave(c) /\ CanRLock(room[c])

\* the dispatch of the envelope calls sendToUser or broadcast
TakesRLock(res) ==
    /\ ~res.err
    /\ \/ res.msg.type = "chat" /\ res.msg.payload # "" /\ res.msg.to # ""
       \/ ~(res.msg.type = "chat" /\ res.msg.payload # "") /\ res.msg.type = "clear"

\* The frames a peer may send once Active, as far as the locks can tell them
\* apart: one payload, no sender name claimed.
LockInputs ==
    {res \in RelayInputs : res.msg.from = "" /\ res.msg.payload \in {"", "hi"}}

RelayRLock(c) ==
    \E res \in LockInputs :
        /\ RelayFrame(c, res)
        /\ TakesRLock(res) => CanRLock(room[c])

HandlerLocks(c) ==
    \/ LockRegistry(c)
    \/ GetOrCreate(c)
    \/ CallLock(c)
    \/ Lock(c)
    \/ RegisterLocked(c)
    \/ Reject(c)
    \/ AnnounceRLock(c)
    \/ ReplayRLock(c)
    \/ ReplayNext(c)
    \/ ReplayUnlock(c)
    \/ RelayRLock(c)
    \/ CleanupLocked(c)
    \/ LockRegistryInCleanup(c)
    \/ RemoveRoom(c)
    \/ Close(c)
    \/ LeaveRLock(c)

NextLocks == (\E c \in Conns : HandlerLocks(c)) \/ Deliver

\* The three connections past their handshakes: each has read a valid join
\* and is about to look its room up.  The first two ask for room A under two
\* names; the third asks for the first one's name, in either room.
Joining ==
    \E seat \in [Conns -> [from : {"alice", "bob"}, roomId : RoomIDs]] :
        /\ seat["c1"] = [from |-> "alice", roomId |-> "A"]
        /\ seat["c2"] = [from |-> "bob", roomId |-> "A"]
        /\ seat["c3"].from = "alice"
        /\ mu = None
        /\ rooms = [id \in RoomIDs |-> NoRoom]
        /\ heap = <<>>
        /\ pc = [c \in Conns |-> "resolve"]
        /\ conn = [c \in Conns |-> "open"]
        /\ room = [c \in Conns |-> NoRoom]
        /\ username = [c \in Conns |-> seat[c].from]
        /\ roomID = [c \in Conns |-> seat[c].roomId]
        /\ join = [c \in Conns |->
                     WSMessage("join", seat[c].from, "", seat[c].roomId, "", KeyOf(c))]
        /\ todo = [c \in Conns |-> {}]
        /\ frames = 0
        /\ inflight = EmptyBag
        /\ writing = EmptyBag
        /\ wire = [c \in Conns |-> <<>>]

\* Three connections that join and leave with no relay traffic, or three
\* connections in their relay loops with relay traffic.
InitLocks == Joining \/ InitRelay

SpecLocks == InitLocks /\ [][NextLocks]_vars

\* ------------------------------------------------- peers that close their end

\* The peer behind connection c closes its end (or the network does): from
\* then on every read and every write on the handle returns an error.
PeerCloses(c) ==
    /\ conn[c] = "open"
    /\ conn' = [conn EXCEPT ![c] = "gone"]
    /\ UNCHANGED <<mu, writing, rooms, heap, pc, locals, frames, inflight, wire>>

\* conn.ReadJSON on a handle whose peer is gone returns an error
ReadJoinFrom(c) ==
    \E res \in JoinInputs(c) :
        /\ conn[c] = "gone" => res.err
        /\ ReadJoinFrame(c, res)

RelayFrom(c) ==
    \E res \in RelayInputs :
        /\ conn[c] = "gone" => res.err
        /\ RelayFrame(c, res)

HandlerPeers(c) ==
    \/ Upgrade(c)
    \/ ReadJoinFrom(c)
    \/ Resolve(c)
    \/ Register(c)
    \/ Reject(c)
    \/ Announce(c)
    \/ ReplayLock(c)
    \/ ReplayNext(c)
    \/ ReplayUnlock(c)
    \/ RelayFrom(c)
    \/ Deregister(c)
    \/ Close(c)
    \/ Leave(c)

NextPeers ==
    \/ \E c \in Conns : PeerCloses(c) \/ HandlerPeers(c)
    \/ Deliver

SpecPeers == Init /\ [][NextPeers]_vars

\* Two connections that join from scratch, or three in their relay loops;
\* the peers send nothing more and close their ends.
InitDrain == Fresh({"c1", "c2"}, 0) \/ \E seat \in Seatings : Seated(seat, {}, 0)

\* A step of handler c that does not wait for its peer: any step but a read
\* on a connection whose peer has not closed its end.
Runs(c) ==
    /\ HandlerPeers(c)
    /\ pc[c] \in {"awaitJoin", "relay"} => conn[c] = "gone"

\* Every peer closes its end in the end, every handler that can run does, and
\* every spawned delivery is performed.
SpecDrain ==
    /\ InitDrain
    /\ [][NextPeers]_vars
    /\ \A c \in Conns : WF_vars(PeerCloses(c)) /\ WF_vars(Runs(c))
    /\ WF_vars(Deliver)

\* ------------------------------------------------ writes that take their time

\* WriteJSON is a call with a beginning and an end. The connection has no
\* lock of its own and the program puts none around its writes: the delivery
\* goroutines call c.WriteJSON(msg) as soon as they run, and the replay
\* calls conn.WriteJSON on the handler's goroutine.

\* Another call of WriteJSON on the connection of w is in progress.
Overlaps(w) ==
    \E x \in BagToSet(writing) : x.to = w.to /\ (x # w \/ writing[w] > 1)

\* What a call of WriteJSON that returns leaves on the connection: the frame,
\* unless it ran together with another write on the same connection; then the
\* frame may be there or not (two unsynchronised writers of one connection).
Returned(w) ==
    {Written(w.to, w.msg)} \cup (IF Overlaps(w) THEN {wire} ELSE {})

\* the goroutine d of broadcast or sendToUser enters c.WriteJSON(msg)
BeginWrite(d) ==
    /\ BagIn(d, inflight)
    /\ inflight' = inflight (-) SetToBag({d})
    /\ writing' = writing (+) SetToBag({[to |-> d.to, msg |-> d.msg, by |-> "go"]})
    /\ UNCHANGED <<mu, rooms, heap, pc, conn, locals, frames, wire>>

\* the c.WriteJSON(msg) of a goroutine returns
EndWrite(w) ==
    /\ BagIn(w, writing)
    /\ w.by = "go"
    /\ writing' = writing (-) SetToBag({w})
    /\ wire' \in Returned(w)
    /\ UNCHANGED <<mu, rooms, heap, pc, conn, locals, frames, inflight>>

\* one iteration of the replay loop up to the call of conn.WriteJSON
ReplayBegin(c) ==
    /\ pc[c] = "replay"
    /\ \E name \in todo[c] :
        /\ todo' = [todo EXCEPT ![c] = @ \ {name}]
        /\ IF name # username[c]
           THEN /\ writing' = writing (+) SetToBag({[to |-> c,
                                 msg |-> PubkeyEnvelope(c, name), by |-> c]})
                /\ pc' = [pc EXCEPT ![c] = "replayWrite"]
           ELSE UNCHANGED <<writing, pc>>
    /\ UNCHANGED <<mu, rooms, heap, conn, room, username, roomID, join, frames,
                   inflight, wire>>

\* the conn.WriteJSON of the replay returns
ReplayEnd(c) ==
    /\ pc[c] = "replayWrite"
    /\ \E w \in BagToSet(writing) :
        /\ w.by = c
        /\ writing' = writing (-) SetToBag({w})
        /\ wire' \in Returned(w)
    /\ pc' = [pc EXCEPT ![c] = "replay"]
    /\ UNCHANGED <<mu, rooms, heap, conn, locals, frames, inflight>>

\* The handlers from the registration on, with writes that take their time.
NextWrites ==
    \/ \E c \in Conns :
          \/ Announce(c)
          \/ ReplayLock(c)
          \/ ReplayBegin(c)
          \/ ReplayEnd(c)
          \/ ReplayUnlock(c)
          \/ Relay(c)
          \/ Deregister(c)
          \/ Close(c)
          \/ Leave(c)
    \/ \E d \in BagToSet(inflight) : BeginWrite(d)
    \/ \E w \in BagToSet(writing) : EndWrite(w)

SpecWrites == InitJoin /\ [][NextWrites]_vars

\* --------------------------------------------- a peer that sends chats in turn

\* The payloads of the chat frames the peer of connection c1 sends, in the
\* order in which it sends them; its relay loop reads them in that order.
ChatScript == <<"hi", "yo">>

\* the frame the relay loop of c1 reads next
NextChat == ChatScript[Len(ChatScript) - frames + 1]

\* Three connections in their relay loops; the peer of c1 will send the
\* chats of the script.
InitOrder == \E seat \in Seatings : Seated(seat, {}, Len(ChatScript))

\* one iteration of a relay loop: a read error on any connection, or the
\* next chat of the script on c1, addressed to a username
RelayInOrder(c) ==
    \E res \in RelayInputs :
        /\ \/ res.err
           \/ /\ c = "c1"
              /\ frames > 0
              /\ res.msg.type = "chat"
              /\ res.msg.from = ""
              /\ res.msg.to # ""
              /\ res.msg.payload = NextChat
        /\ RelayFrame(c, res)

NextOrder ==
    \/ \E c \in Conns : RelayInOrder(c) \/ Deregister(c) \/ Close(c) \/ Leave(c)
    \/ Deliver

SpecOrder == InitOrder /\ [][NextOrder]_vars

\* -------------------------------------------------------------- properties

Instances == 1..Len(heap)

Members(r) == DOMAIN heap[r].clients

\* the connections registered in room instance r under the name u
Holders(r, u) == {k \in Members(r) : heap[r].clients[k] = u}

\* C1: within one Room, no two distinct connections in `clients` are
\* registered under the same username.
C1_UsernameUniqueness ==
    \A r \in Instances : \A a, b \in Members(r) :
        a # b => heap[r].clients[a] # heap[r].clients[b]

\* Two connections asked for the same name in the same room; one holds it and
\* the other has been turned away.
C1_Witness ==
    \E a, b \in Conns :
        /\ a # b
        /\ username[a] # "" /\ username[a] = username[b]
        /\ room[a] # NoRoom /\ room[a] = room[b]
        /\ IsClient(room[a], a)
        /\ pc[b] = "rejected"

\* connection c's handler leaves the position p in this step
Leaves(c, p) == pc[c] = p /\ pc'[c] # p

\* connection c's relay loop decodes a frame in this step
Decodes(c) == pc[c] = "relay" /\ frames' # frames

\* connection c has been sent the collision notice
Notified(c) == \E i \in DOMAIN wire[c] : wire[c][i] = UsernameTaken

\* connection c is a member of the room instance it resolved
Registered(c) == room[c] # NoRoom /\ IsClient(room[c], c)

C2_Step(c) ==
    /\ Leaves(c, "register") /\ Holders(room[c], username[c]) # {} =>
          /\ pc'[c] = "rejected"
          /\ heap' = heap /\ rooms' = rooms
          /\ inflight' = inflight /\ wire' = wire
    /\ Leaves(c, "rejected") =>
          /\ wire' = [wire EXCEPT ![c] = Append(@, UsernameTaken)]
          /\ heap' = heap /\ rooms' = rooms
          /\ inflight' = inflight
    /\ Leaves(c, "deregister") /\ Notified(c) =>
          /\ pc'[c] = "done"
          /\ heap' = heap /\ rooms' = rooms
          /\ inflight' = inflight /\ wire' = wire

\* C2: a join whose username is already registered in the target room is
\* rejected: the collision notice is written to the joining connection only,
\* the room's clients and publicKeys stay as they were (the holder keeps its
\* name and its own key), and no join or leave announcement is sent.
C2_Collision == [][\A c \in Conns : C2_Step(c)]_vars

\* A rejected handler has ended while the holder of the name is still
\* registered under its own key, a third connection sharing the room.
C2_Witness ==
    \E c, k \in Conns :
        /\ k # c
        /\ Notified(c) /\ pc[c] = "done"
        /\ Registered(k) /\ room[k] = room[c]
        /\ heap[room[k]].clients[k] = username[c]
        /\ heap[room[k]].publicKeys[username[c]] = join[k].publicKey
        /\ join[k].publicKey # join[c].publicKey
        /\ Cardinality(Members(room[k])) = 2

C3_Step(c) ==
    Leaves(c, "register") =>
        /\ pc'[c] = "rejected" =>
              \E k \in Conns \ {c} :
                  /\ Registered(k)
                  /\ username[k] = username[c]
                  /\ roomID[k] = roomID[c]
        /\ (\A k \in Conns \ {c} :
                Registered(k) /\ username[k] = username[c]
                    => roomID[k] # roomID[c]) =>
              /\ pc'[c] = "announce"
              /\ c \in DOMAIN heap'[room[c]].clients
              /\ heap'[room[c]].clients[c] = username[c]

\* C3: uniqueness is scoped to the room: a join is turned away only when a
\* member registered under the same room id holds the username, and a join
\* whose username is held in rooms of other ids only is registered.
C3_RoomScopedUniqueness == [][\A c \in Conns : C3_Step(c)]_vars

\* The same username is registered in two rooms at once.
C3_Witness ==
    \E a, b \in Conns :
        /\ Registered(a) /\ Registered(b)
        /\ username[a] = username[b]
        /\ roomID[a] # roomID[b]
        /\ room[a] # room[b]

C4_Step(c) ==
    /\ Leaves(c, "deregister") /\ Members(room[c]) = {c} =>
          /\ rooms'[roomID[c]] = NoRoom
          /\ DOMAIN heap'[room[c]].clients = {}
          /\ DOMAIN heap'[room[c]].publicKeys = {}
    /\ Leaves(c, "resolve") /\ rooms[roomID[c]] = NoRoom =>
          /\ room'[c] \notin 1..Len(heap)
          /\ room'[c] \in 1..Len(heap')
          /\ rooms'[roomID[c]] = room'[c]
          /\ DOMAIN heap'[room'[c]].clients = {}
          /\ DOMAIN heap'[room'[c]].publicKeys = {}
    /\ Leaves(c, "register") /\ Members(room[c]) = {} =>
          /\ DOMAIN heap'[room[c]].clients = {c}
          /\ DOMAIN heap'[room[c]].publicKeys = {username[c]}
          /\ heap'[room[c]].publicKeys[username[c]] = join[c].publicKey

\* C4: the cleanup of a room's only member removes the registry entry of its
\* room id; a join that then finds no entry gets a Room created for it, new
\* and empty, and a joiner registering where nobody is registered is the only
\* member with the only key.
C4_LastMemberCleanup == [][\A c \in Conns : C4_Step(c)]_vars

\* The only member of a room has gone, and a later joiner of the same room id
\* sits alone in another Room, the one the registry now holds.
C4_Witness ==
    \E c, d \in Conns :
        /\ c # d
        /\ pc[c] = "done" /\ conn[c] = "closed"
        /\ roomID[c] = roomID[d]
        /\ Registered(d) /\ room[d] # room[c]
        /\ rooms[roomID[d]] = room[d]
        /\ Members(room[d]) = {d}
        /\ DOMAIN heap[room[d]].publicKeys = {username[d]}
        /\ Members(room[c]) = {}

\* the frame is a join request with its three fields filled
IsJoinRequest(m) ==
    m.type = "join" /\ m.from # "" /\ m.roomId # "" /\ m.publicKey # ""

C5_Step(c) ==
    Leaves(c, "awaitJoin") =>
        \A res \in JoinInputs(c) :
            ReadJoinFrame(c, res) /\ (res.err \/ ~IsJoinRequest(res.msg)) =>
                /\ pc'[c] = "done"
                /\ heap' = heap /\ rooms' = rooms
                /\ inflight' = inflight /\ wire' = wire

\* C5: when the first read fails or the first frame is not a join request
\* with non-empty from, roomId and publicKey, the handler ends: no room is
\* created or changed, nothing is written and no announcement is sent.
C5_HandshakeStrictness == [][\A c \in Conns : C5_Step(c)]_vars

\* A handshake has failed while another connection is registered.
C5_Witness ==
    \E c, k \in Conns :
        /\ conn[c] # "nil" /\ pc[c] = "done" /\ username[c] = ""
        /\ Registered(k)

\* C6: every handler that has ended (after a failed handshake, a username
\* collision or a read error in the relay loop) has closed the connection
\* handle it was given.
C6_ClosedOnReturn ==
    \A c \in Conns : pc[c] = "done" /\ conn[c] # "nil" => conn[c] = "closed"

\* the sends spawned by this step (no step both spawns and completes sends)
Dispatched == inflight' (-) inflight

\* an inbound chat envelope that the relay loop routes
Routable(res) ==
    /\ ~res.err
    /\ res.msg.type = "chat" /\ res.msg.payload # "" /\ res.msg.to # ""

C7_Step(c) ==
    Decodes(c) =>
        \A res \in RelayInputs :
            RelayFrame(c, res) /\ Routable(res) =>
                /\ BagCardinality(Dispatched) <= 1
                /\ \A d \in BagToSet(Dispatched) :
                      d.to \in Holders(room[c], res.msg.to)
                /\ Holders(room[c], res.msg.to) # {} =>
                      BagCardinality(Dispatched) = 1

\* C7: a chat envelope with a payload and to = u read from a connection in
\* its relay loop spawns at most one send, to the connection registered as u
\* in the sender's own Room at that moment, and none to any other member of
\* the room or to a connection of another room.
C7_DirectSend == [][\A c \in Conns : C7_Step(c)]_vars

\* the chat frames connection k has been sent, written or still in flight
ChatsSent(k) ==
    {i \in DOMAIN wire[k] : wire[k][i].type = "chat"} \cup
    {d \in BagToSet(inflight) : d.to = k /\ d.msg.type = "chat"}

\* In a room of three, one member has a chat frame on its connection and the
\* other two have been sent none.
C7_Witness ==
    \E k \in Conns :
        /\ Registered(k)
        /\ Cardinality(Members(room[k])) = 3
        /\ \E i \in DOMAIN wire[k] : wire[k][i].type = "chat"
        /\ \A o \in Members(room[k]) \ {k} : ChatsSent(o) = {}

\* the number of sends to connection k among those this step spawned
CopiesTo(k) ==
    LET to == {d \in BagToSet(Dispatched) : d.to = k}
    IN  BagCardinality([d \in to |-> Dispatched[d]])

\* one envelope, spawned once for each of the targets and for nobody else
FanOut(targets) ==
    /\ \A k \in Conns : CopiesTo(k) = IF k \in targets THEN 1 ELSE 0
    /\ BagCardinality(Dispatched) = Cardinality(targets)
    /\ Cardinality({d.msg : d \in BagToSet(Dispatched)}) <= 1

C8_Step(c) ==
    /\ Leaves(c, "announce") =>
          /\ c \in Members(room[c])
          /\ FanOut(Members(room[c]) \ {c})
    /\ Leaves(c, "leave") => FanOut(Members(room[c]) \ {c})
    /\ Decodes(c) =>
          \A res \in RelayInputs :
              RelayFrame(c, res) /\ res.msg.type = "clear" =>
                  FanOut(Members(room[c]))

\* C8: every broadcast (the join announcement and the leave announcement, both
\* excluding the handler's own connection, and the clear, excluding nobody)
\* spawns exactly one send of the envelope to every member of the room at
\* that moment but the excluded one, and none to anybody else: N-1 sends when
\* the excluded connection is one of N members, N when nobody is excluded.
C8_BroadcastFanOut == [][\A c \in Conns : C8_Step(c)]_vars

\* In a room of two, the second member's join has reached the first and not
\* the second, and a clear has reached both.
C8_Witness ==
    \E a, b \in Conns :
        /\ a # b
        /\ Registered(a) /\ Registered(b) /\ room[a] = room[b]
        /\ \E i \in DOMAIN wire[a] :
              wire[a][i].type = "join" /\ wire[a][i].from = username[b]
        /\ \A i \in DOMAIN wire[b] : wire[b][i].type # "join"
        /\ \E i \in DOMAIN wire[a] : wire[a][i].type = "clear"
        /\ \E i \in DOMAIN wire[b] : wire[b][i].type = "clear"

C9_Step(c) ==
    Decodes(c) /\ inflight' # inflight =>
        \A res \in RelayInputs :
            RelayFrame(c, res) /\ res.msg.type = "chat" =>
                \A d \in BagToSet(Dispatched) :
                    /\ d.msg.type = "chat"
                    /\ d.msg.from = heap[room[c]].clients[c]
                    /\ d.msg.payload = res.msg.payload
                    /\ d.msg.roomId = join[c].roomId

\* C9: every chat envelope the relay sends on carries as from the username
\* its sender is registered under, whatever the inbound from was, with the
\* inbound payload and the room id of the sender's join.
C9_SenderAuthentication == [][\A c \in Conns : C9_Step(c)]_vars

\* A chat frame has been written to a member of a room of three, and it names
\* another member of that room as its sender.
C9_Witness ==
    \E k, c \in Conns :
        /\ k # c
        /\ Registered(k) /\ Registered(c) /\ room[k] = room[c]
        /\ Cardinality(Members(room[k])) = 3
        /\ \E i \in DOMAIN wire[k] :
              /\ wire[k][i].type = "chat"
              /\ wire[k][i].from = heap[room[c]].clients[c]
              /\ wire[k][i].payload # ""

\* the pubkey frames for member b written to connection a
PubkeysFor(a, b) ==
    {i \in DOMAIN wire[a] :
        /\ wire[a][i].type = "pubkey"
        /\ wire[a][i].from = username[b]
        /\ wire[a][i].publicKey = join[b].publicKey}

\* the join announcements for b sent to connection a: written, or in flight
JoinsSent(a, b) ==
    LET IsJoinOf(m) == m.type = "join" /\ m.from = username[b]
        flying == {d \in BagToSet(inflight) : d.to = a /\ IsJoinOf(d.msg)}
    IN  Cardinality({i \in DOMAIN wire[a] : IsJoinOf(wire[a][i])})
          + BagCardinality([d \in flying |-> inflight[d]])

\* C10: when a newcomer joins a room and a member registered before it stays
\* registered, the newcomer is sent no join announcement for itself, the
\* member is sent exactly one join announcement for the newcomer once the
\* announcement is made, and the newcomer has been sent exactly one pubkey
\* frame for the member once its replay is over (and never more than one).
C10_NoDuplicateAnnouncement ==
    /\ JoinsSent(Newcomer, Newcomer) = 0
    /\ \A e \in Conns \ {Newcomer} :
          Registered(e) /\ room[e] = room[Newcomer] =>
              /\ pc[Newcomer] # "announce" => JoinsSent(e, Newcomer) = 1
              /\ conn[Newcomer] = "open" =>
                    /\ Cardinality(PubkeysFor(Newcomer, e)) <= 1
                    /\ pc[Newcomer] \notin {"announce", "replayLock", "replay"}
                          => Cardinality(PubkeysFor(Newcomer, e)) = 1

\* The newcomer is in its relay loop next to two members that registered
\* before it, every send completed.
C10_Witness ==
    /\ pc[Newcomer] = "relay"
    /\ inflight = EmptyBag
    /\ Cardinality(Members(room[Newcomer])) = 3
    /\ \A e \in Conns \ {Newcomer} :
          /\ Registered(e) /\ room[e] = room[Newcomer]
          /\ JoinsSent(e, Newcomer) = 1
          /\ Cardinality(PubkeysFor(Newcomer, e)) = 1

C11_Step(c) ==
    /\ Leaves(c, "deregister") =>
          IF Registered(c)
          THEN /\ pc'[c] = "close"
               /\ c \notin DOMAIN heap'[room[c]].clients
               /\ inflight' = inflight
          ELSE /\ pc'[c] = "done"
               /\ inflight' = inflight
    /\ Leaves(c, "close") => pc'[c] = "leave" /\ inflight' = inflight
    /\ Leaves(c, "leave") =>
          /\ pc'[c] = "done"
          /\ c \notin Members(room[c])
          /\ FanOut(Members(room[c]))
          /\ \A d \in BagToSet(Dispatched) :
                d.msg.type = "leave" /\ d.msg.from = join[c].from
    /\ pc'[c] = "done" /\ pc[c] \notin {"leave", "done"} =>
          ~Registered(c) /\ inflight' = inflight

\* C11: a registered connection's handler ends by removing the connection
\* from its room, then closing it, then spawning exactly one leave envelope
\* carrying its username for each member left in the room and none for
\* itself; a handler of a connection that is not registered ends without
\* spawning anything, and only these steps spawn leave envelopes.
C11_LeaveAnnouncement ==
    [][/\ \A c \in Conns : C11_Step(c)
       /\ \A d \in BagToSet(Dispatched) :
             d.msg.type = "leave" => \E c \in Conns : Leaves(c, "leave")]_vars

\* A member has gone and the member it left behind has its leave frame,
\* while a connection turned away from that room has ended as well.
C11_Witness ==
    \E c, k, n \in Conns :
        /\ pc[c] = "done" /\ conn[c] = "closed"
        /\ Registered(k) /\ room[k] = room[c]
        /\ \E i \in DOMAIN wire[k] :
              wire[k][i].type = "leave" /\ wire[k][i].from = username[c]
        /\ Notified(n) /\ pc[n] = "done" /\ room[n] = room[c]

\* the deferred cleanup of handler c gets past its outer condition
CleansUp(c) == room[c] # NoRoom /\ username[c] # ""

\* C12: the cleanup of a connection that is not, or no longer, in its room's
\* clients changes nothing: no entry leaves clients or publicKeys, no registry
\* entry is deleted and no close or leave follows; so the cleanup run a
\* second time adds nothing to what it did the first time.
C12_IdempotentCleanup ==
    \A c \in Conns :
        CleansUp(c) =>
            LET once == Cleanup(c, heap, rooms)
                twice == Cleanup(c, once.heap, once.rooms)
            IN  /\ ~Registered(c) =>
                      once = [heap |-> heap, rooms |-> rooms, removed |-> FALSE]
                /\ twice =
                      [heap |-> once.heap, rooms |-> once.rooms, removed |-> FALSE]

\* One handler has run its cleanup as a member and is gone, another has been
\* turned away for a name that is held and is about to run its cleanup, both
\* in a Room that has a member.
C12_Witness ==
    \E c, n, k \in Conns :
        /\ pc[c] = "done" /\ conn[c] = "closed" /\ CleansUp(c)
        /\ Notified(n) /\ pc[n] = "deregister" /\ room[n] = room[c]
        /\ Registered(k) /\ room[k] = room[c]
        /\ heap[room[k]].clients[k] = username[n]

\* the frames connection k has been sent of one type, written or in flight
Sent(k, type) ==
    {i \in DOMAIN wire[k] : wire[k][i].type = type} \cup
    {d \in BagToSet(inflight) : d.to = k /\ d.msg.type = type}

C13_Step(c) ==
    Decodes(c) =>
        \A res \in RelayInputs :
            /\ RelayFrame(c, res)
            /\ Routable(res)
            /\ Holders(room[c], res.msg.to) = {}
            => /\ pc'[c] = "relay"
               /\ UNCHANGED <<mu, writing, rooms, heap, pc, conn, locals, inflight, wire>>

\* C13: a chat addressed to a name that no member of the sender's room has
\* spawns no send, writes nothing to the sender or anybody else and changes
\* no Room and no registry entry; the sender stays in its relay loop, and
\* nothing of the chat is kept for a later joiner.
C13_RoutingMiss == [][\A c \in Conns : C13_Step(c)]_vars

\* Two connections are registered, each alone in its room, every frame the
\* peers sent has been decoded, and neither has been sent a chat or a clear.
C13_Witness ==
    /\ frames = 0
    /\ inflight = EmptyBag
    /\ \E a, b \in Conns :
          /\ Registered(a) /\ Registered(b)
          /\ pc[a] = "relay" /\ pc[b] = "relay"
          /\ roomID[a] # roomID[b]
          /\ username[a] # username[b]
          /\ \A k \in {a, b} : Sent(k, "chat") = {} /\ Sent(k, "clear") = {}

\* every send this step spawned goes to a connection that joined c's room id
StaysInRoomOf(c) ==
    \A d \in BagToSet(Dispatched) : roomID[d.to] = roomID[c]

C14_Step(c) ==
    /\ Leaves(c, "announce") \/ Leaves(c, "leave") => StaysInRoomOf(c)
    /\ Decodes(c) /\ inflight' # inflight =>
          \A res \in RelayInputs : RelayFrame(c, res) => StaysInRoomOf(c)
    /\ pc[c] = "replay" /\ todo'[c] # todo[c] /\ wire'[c] # wire[c] =>
          LET m == wire'[c][Len(wire'[c])]
          IN  \E k \in Conns \ {c} :
                  /\ roomID[k] = roomID[c]
                  /\ username[k] = m.from
                  /\ join[k].publicKey = m.publicKey

\* C14: whatever a handler sends on behalf of its connection (the join
\* announcement, a relayed chat, a clear, the leave) goes only to connections
\* that joined the same room id, the pubkey frames it replays to its own
\* connection are those of connections that joined the same room id, and no
\* frame on a connection carries another room id than the connection's.
C14_RoomIsolation ==
    [][/\ \A c \in Conns : C14_Step(c)
       /\ \A k \in Conns : \A i \in DOMAIN wire'[k] :
             wire'[k][i].roomId \in {"", roomID'[k]}]_vars

\* Two connections are registered in different rooms; one has been sent its
\* own clear, the other has been sent nothing at all.
C14_Witness ==
    \E a, b \in Conns :
        /\ Registered(a) /\ Registered(b)
        /\ roomID[a] # roomID[b]
        /\ pc[b] = "relay"
        /\ \E i \in DOMAIN wire[a] : wire[a][i].type = "clear"
        /\ wire[b] = <<>>
        /\ \A d \in BagToSet(inflight) : d.to # b

\* C15: the connections that are registered at one time and joined with the
\* same room id are members of one and the same Room instance.
C15_OneRoomPerId ==
    \A a, b \in Conns :
        Registered(a) /\ Registered(b) /\ roomID[a] = roomID[b]
            => room[a] = room[b]

\* C16: a cleanup deletes the registry entry of its room id only when the
\* entry holds the Room the connection belonged to and that Room has no
\* member left; no step deletes an entry whose Room still has a member.
C16_ConditionalRemoval ==
    [][/\ \A c \in Conns :
             Leaves(c, "deregister") /\ rooms'[roomID[c]] # rooms[roomID[c]] =>
                 /\ rooms[roomID[c]] = room[c]
                 /\ DOMAIN heap'[room[c]].clients = {}
       /\ \A id \in RoomIDs :
             rooms[id] # NoRoom /\ rooms'[id] = NoRoom =>
                 DOMAIN heap'[rooms[id]].clients = {}]_vars

\* an inbound envelope whose type is neither chat nor clear
OtherType(res) == ~res.err /\ res.msg.type \notin {"chat", "clear"}

\* C17: when a connection in its relay loop sends an envelope whose type is
\* neither chat nor clear, the loop ends: the handler goes on to its cleanup.
C17_OtherTypesEndLoop ==
    [][\A c \in Conns :
          Decodes(c) =>
              \A res \in RelayInputs :
                  RelayFrame(c, res) /\ OtherType(res) => pc'[c] = "deregister"]_vars

C18_Step(c) ==
    Decodes(c) =>
        \A res \in RelayInputs :
            RelayFrame(c, res) /\ ~res.err /\ res.msg.type = "clear" =>
                /\ c \in Members(room[c])
                /\ CopiesTo(c) = 1
                /\ FanOut(Members(room[c]))
                /\ \A d \in BagToSet(Dispatched) :
                      /\ d.msg.type = "clear"
                      /\ d.msg.roomId = roomID[c]
                      /\ roomID[d.to] = roomID[c]

\* C18: a clear envelope read from a connection in its relay loop spawns
\* exactly one clear, tagged with the sender's room id, for every member of
\* the sender's room at that moment, the sender included, and none for a
\* connection outside that room.
C18_Clear == [][\A c \in Conns : C18_Step(c)]_vars

\* Every member of a room of three has a clear frame on its connection.
C18_Witness ==
    \E c \in Conns :
        /\ Registered(c)
        /\ Cardinality(Members(room[c])) = 3
        /\ \A k \in Members(room[c]) :
              \E i \in DOMAIN wire[k] :
                  wire[k][i].type = "clear" /\ wire[k][i].roomId = roomID[c]

\* the sends this step completed
Completed == inflight (-) inflight'

\* this step is the write of a spawned send
Delivers == BagCardinality(inflight') < BagCardinality(inflight)

\* C19: a broadcast spawns its sends and returns without any of them having
\* been written; each spawned send completes by itself, whatever the state
\* of the other sends and of their recipients: its write touches only its
\* own recipient's connection (or nothing, when that connection is closed),
\* takes no other send with it and moves no handler.
C19_FanOutIsolation ==
    [][/\ \A d \in BagToSet(inflight) : ENABLED DeliverOne(d)
       /\ Delivers =>
             /\ BagCardinality(Completed) = 1
             /\ \A d \in BagToSet(Completed) :
                   /\ wire'[d.to] = IF conn[d.to] = "open"
                                    THEN Append(wire[d.to], d.msg)
                                    ELSE wire[d.to]
                   /\ \A k \in Conns \ {d.to} : wire'[k] = wire[k]
             /\ UNCHANGED <<mu, writing, rooms, heap, pc, conn, locals, frames>>
       /\ Dispatched # EmptyBag =>
             /\ wire' = wire
             /\ \A c \in Conns :
                   pc'[c] # pc[c] => pc'[c] \in {"replayLock", "done"}]_vars

\* A send to a connection that has closed meanwhile is still pending, while
\* the same envelope has been written to another recipient.
C19_Witness ==
    \E d \in BagToSet(inflight) :
        /\ conn[d.to] = "closed"
        /\ \E k \in Conns \ {d.to} :
              \E i \in DOMAIN wire[k] : wire[k][i] = d.msg

\* a room pointer that is nil or a Room without members
EmptyOrNil(r) == r = NoRoom \/ DOMAIN heap[r].clients = {}

\* C20: broadcast and sendToUser called with a nil room or with a Room that
\* has no members find no target and spawn no send, whatever the excluded
\* connection, the username and the envelope are: the pending sends are what
\* they were.
C20_EmptyOrNilRoom ==
    \A r \in Instances \cup {NoRoom} :
        EmptyOrNil(r) =>
            \A m \in {ZeroMsg, WSMessage("clear", "", "", "A", "", "")} :
                /\ \A x \in Conns \cup {None} :
                      /\ Broadcast(r, x, m) = EmptyBag
                      /\ inflight (+) Broadcast(r, x, m) = inflight
                /\ \A u \in Usernames \cup {""} :
                      /\ Targets(r, u) = {}
                      /\ \A t \in TargetConn(r, u) :
                            /\ SendTo(t, m) = EmptyBag
                            /\ inflight (+) SendTo(t, m) = inflight

\* The only member of a room has gone, its leave broadcast on the empty Room
\* done and no leave sent to anybody, while another handler has ended with a
\* nil room and a third connection is registered elsewhere.
C20_Witness ==
    \E c, n, k \in Conns :
        /\ pc[c] = "done" /\ conn[c] = "closed"
        /\ room[c] # NoRoom /\ Members(room[c]) = {}
        /\ pc[n] = "done" /\ room[n] = NoRoom /\ conn[n] = "open"
        /\ Registered(k)
        /\ \A x \in Conns : Sent(x, "leave") = {}

\* the usernames that are values of the clients map of room instance r
Names(r) == {heap[r].clients[k] : k \in Members(r)}

\* C21: in every Room (the write lock of none is held between two steps), the
\* keys of publicKeys are exactly the usernames that are values of clients;
\* the registration adds to both maps and the cleanup deletes from both maps
\* within the one step that holds the lock.
C21_MapConsistency ==
    \A r \in Instances : DOMAIN heap[r].publicKeys = Names(r)

\* A room keeps two members under two names, each with its own key, after a
\* third connection registered in it and left it again.
C21_Witness ==
    \E a, b, c \in Conns :
        /\ a # b
        /\ Registered(a) /\ Registered(b) /\ room[a] = room[b]
        /\ Names(room[a]) = {username[a], username[b]}
        /\ heap[room[a]].publicKeys[username[a]] = KeyOf(a)
        /\ heap[room[b]].publicKeys[username[b]] = KeyOf(b)
        /\ pc[c] = "done" /\ conn[c] = "closed" /\ room[c] = room[a]

\* C22: every registered connection's Room is the Room the registry holds
\* under the connection's room id: no Room with a member is absent from the
\* registry.
C22_NoOrphanedRoom ==
    \A c \in Conns : Registered(c) => rooms[roomID[c]] = room[c]

\* the handlers that hold, or wait ahead of c for, the lock that handler c is
\* waiting for (none when c is not waiting for a lock)
Blockers(c) ==
    IF pc[c] \in {"resolve", "removeWait"}
    THEN {mu} \ {None}
    ELSE IF pc[c] \in {"registerWait", "cleanupWait"}
    THEN heap[room[c]].readers \cup ({heap[room[c]].writer} \ {None})
    ELSE IF pc[c] \in {"announce", "replayLock", "leave"} /\ room[c] # NoRoom
    THEN heap[room[c]].waiting \cup ({heap[room[c]].writer} \ {None})
    ELSE {}

\* handler c holds a lock
HoldsRegistry(c) == mu = c

HoldsRoom(c) ==
    \E r \in Instances : heap[r].writer = c \/ c \in heap[r].readers

\* a set of handlers of which some wait for a lock, each of them for a lock
\* that another one of the set has in the way, the others having ended with
\* a lock in their hands
Stuck(S) ==
    /\ \E c \in S : Blockers(c) # {}
    /\ \A c \in S :
          \/ Blockers(c) \cap S # {}
          \/ pc[c] = "done" /\ (HoldsRegistry(c) \/ HoldsRoom(c))

\* C23: no set of handlers is stuck waiting for the registry lock or a room
\* lock in one another's hands (or in the hands of a handler that has ended),
\* and a handler that has not ended and waits for no lock can take a step.
C23_DeadlockFreedom ==
    /\ \A S \in SUBSET Conns : ~Stuck(S)
    /\ \A c \in Conns :
          pc[c] # "done" /\ Blockers(c) = {} => ENABLED HandlerLocks(c)

\* A cleanup holds its room's lock and waits for the registry lock, which a
\* join holds, while a third handler waits for that room's lock.
C23_Witness ==
    \E a, b, c \in Conns :
        /\ pc[a] \in {"registerWait", "cleanupWait"} /\ Blockers(a) = {b}
        /\ pc[b] = "removeWait" /\ Blockers(b) = {c}
        /\ pc[c] = "resolving"

\* handler c asks for a room lock in this step
RequestsRoom(c) ==
    \/ \E r \in 1..Len(heap) :
          \/ c \in heap'[r].waiting \ heap[r].waiting
          \/ c \in heap'[r].readers \ heap[r].readers
    \/ Leaves(c, "announce") \/ Leaves(c, "leave")
    \/ Decodes(c) /\ inflight' # inflight

\* C24: a handler holds the registry lock together with a room lock only while
\* it removes its own, empty, room from the registry in its cleanup, having
\* taken the room lock before the registry lock; it holds the registry lock
\* nowhere but in the lookup of the join and in that removal, and no handler
\* asks for a room lock with the registry lock in its hands.
C24_LockDiscipline ==
    [][\A c \in Conns :
          /\ HoldsRegistry(c) => pc[c] \in {"resolving", "removing"}
          /\ HoldsRegistry(c) /\ HoldsRoom(c) =>
                /\ pc[c] = "removing"
                /\ Members(room[c]) = {}
          /\ pc[c] = "removing" => heap[room[c]].writer = c
          /\ HoldsRegistry(c)' /\ ~HoldsRegistry(c) /\ HoldsRoom(c)' =>
                heap[room[c]].writer = c /\ pc[c] = "removeWait"
          /\ RequestsRoom(c) => ~HoldsRegistry(c) /\ ~HoldsRegistry(c)']_vars

\* A cleanup removes its room from the registry with both locks in its hands
\* while a join waits for the registry lock and another handler for the room
\* lock.
C24_Witness ==
    \E c, j, k \in Conns :
        /\ pc[c] = "removing" /\ HoldsRegistry(c) /\ heap[room[c]].writer = c
        /\ pc[j] = "resolve"
        /\ pc[k] \in {"registerWait", "cleanupWait"} /\ room[k] = room[c]

\* handler c performs a send in this step: a write on its own connection (a
\* replayed pubkey, the collision notice) or the spawning of deliveries
SendsNow(c) ==
    \/ pc[c] = "replay" /\ todo'[c] # todo[c] /\ wire'[c] # wire[c]
    \/ Leaves(c, "rejected")
    \/ pc'[c] # pc[c] /\ Dispatched # EmptyBag
    \/ Decodes(c) /\ Dispatched # EmptyBag

\* C25: a handler that performs a send (the spawning of the deliveries of a
\* broadcast or of a direct send, a pubkey replayed to its own connection,
\* the collision notice) holds no room lock while it does.
C25_NoSendUnderRoomLock ==
    [][\A c \in Conns : SendsNow(c) => ~HoldsRoom(c)]_vars

\* this step is a delivery whose write fails
FailedDelivery ==
    /\ Delivers
    /\ \E d \in BagToSet(Completed) : conn[d.to] # "open"

C26_Step(c) ==
    /\ \A r \in Instances :
          c \in Members(r) /\ c \notin DOMAIN heap'[r].clients =>
              /\ Leaves(c, "deregister")
              /\ r = room[c]
    /\ Registered(c) /\ pc[c] # "deregister" /\ pc'[c] = "deregister" =>
          /\ pc[c] = "relay"
          /\ \A res \in RelayInputs : RelayFrame(c, res) => res.err

\* C26: a delivery whose write fails changes no Room and no registry entry,
\* moves no handler and spawns nothing (no leave); a connection leaves the
\* clients of a Room only in the cleanup step of its own handler, and a
\* registered connection's handler gets to its cleanup only from a failed
\* read of its own relay loop.
C26_FailedSendIsNotDisconnect ==
    [][/\ FailedDelivery =>
             /\ UNCHANGED <<mu, writing, rooms, heap, pc, conn, locals, frames, wire>>
             /\ Dispatched = EmptyBag
       /\ \A c \in Conns : C26_Step(c)]_vars

\* A member whose peer is gone is still registered next to a newcomer whose
\* join announcement was sent to it and never arrived.
C26_Witness ==
    \E k, c \in Conns :
        /\ k # c
        /\ Registered(k) /\ Registered(c) /\ room[k] = room[c]
        /\ conn[k] = "gone" /\ pc[k] = "relay"
        /\ heap[room[k]].publicKeys[username[k]] = KeyOf(k)
        /\ PubkeysFor(c, k) # {}
        /\ pc[c] = "relay"
        /\ inflight = EmptyBag
        /\ JoinsSent(k, c) = 0

C27_Step(c) ==
    /\ Leaves(c, "replayLock") =>
          pc'[c] = "replay" /\ todo'[c] = Names(room[c])
    /\ Leaves(c, "replay") =>
          /\ pc'[c] = "relay"
          /\ todo[c] = {}
          /\ conn[c] = "open"
          /\ \A k \in Members(room[c]) \ {c} : PubkeysFor(c, k) # {}
    /\ pc[c] \in {"announce", "replayLock", "replay"} /\ frames' # frames =>
          \E k \in Conns \ {c} : Decodes(k)
    /\ Leaves(c, "relay") \/ Decodes(c) =>
          /\ todo[c] = {}
          /\ c \notin heap[room[c]].readers

\* C27: the replay ranges over the names registered in the room when it
\* starts and ends only when a pubkey frame for every member but the newcomer
\* is written on the newcomer's connection; the handler reads no frame of its
\* relay loop (so routes no chat or clear of its connection) before the replay
\* has ended.
C27_KeyPriming == [][\A c \in Conns : C27_Step(c)]_vars

\* A newcomer that was sent the key of the member before it has had a chat
\* of its own relayed to that member.
C27_Witness ==
    \E c, k \in Conns :
        /\ c # k
        /\ Registered(c) /\ Registered(k) /\ room[c] = room[k]
        /\ PubkeysFor(c, k) # {}
        /\ \E i \in DOMAIN wire[k] :
              wire[k][i].type = "chat" /\ wire[k][i].from = username[c]

\* the Room instances connection c is a member of
RoomsOf(c) == {r \in Instances : c \in Members(r)}

\* C28: a connection is a member of at most one Room, and a join envelope
\* read from a connection in its relay loop (a full join request for another
\* room under another name and key included) changes no Room, no registry
\* entry and nothing the handler knows of its connection: neither its room,
\* nor its username, nor its key.
C28_SingleMembership ==
    [][/\ \A c \in Conns : Cardinality(RoomsOf(c)) <= 1
       /\ \A c \in Conns :
             Decodes(c) =>
                 \A res \in RelayInputs :
                     RelayFrame(c, res) /\ res.msg.type = "join" =>
                         /\ UNCHANGED <<rooms, heap, locals, inflight, wire>>
                         /\ Cardinality(RoomsOf(c)') <= 1]_vars

\* A frame has been decoded and nothing has come of it: the three connections
\* are in their relay loops, registered as they were, in two rooms, and no
\* frame was sent to any of them since.
C28_Witness ==
    /\ frames < MaxReads
    /\ inflight = EmptyBag
    /\ \A c \in Conns :
          /\ pc[c] = "relay" /\ Registered(c)
          /\ RoomsOf(c) = {room[c]}
          /\ heap[room[c]].clients[c] = join[c].from
          /\ Sent(c, "chat") = {} /\ Sent(c, "clear") = {}
    /\ \E a, b \in Conns : room[a] # room[b]
    /\ rooms["B"] # NoRoom /\ Members(rooms["B"]) = {"c3"}

\* handler c has resolved its room in the registry and has not registered in
\* it (or been turned away) yet
Between(c) == pc[c] \in {"register", "registerWait", "registering"}

\* handler c has emptied its room in its cleanup and has not removed it from
\* the registry yet
Removing(c) == pc[c] \in {"removeWait", "removing"}

\* every Room the registry holds has a member
NoEmptyRoom ==
    \A id \in RoomIDs : rooms[id] # NoRoom => Members(rooms[id]) # {}

\* C29 as stated: whenever no handler is between resolving a room in the
\* registry and registering in it, every Room in the registry has a member.
C29_NoEmptyRoomPersists ==
    (\A c \in Conns : ~Between(c)) => NoEmptyRoom

\* C29, amended: whenever no handler is between resolving a room and
\* registering in it and no cleanup is between emptying its room and removing
\* it from the registry, every Room in the registry has a member; a Room is
\* created only by the lookup of a handler that read a valid join, and the
\* cleanup that takes the last member out of a Room goes on, without letting
\* go of the room lock, to delete the registry entry of its room id.
C29_NoEmptyRoomOutsideCleanup ==
    [][/\ (\A c \in Conns : ~Between(c)' /\ ~Removing(c)') => NoEmptyRoom'
       /\ Len(heap') # Len(heap) =>
             \E c \in Conns :
                 /\ Leaves(c, "resolving")
                 /\ IsJoinRequest(join[c])
                 /\ rooms[roomID[c]] = NoRoom
                 /\ rooms'[roomID[c]] = Len(heap')
                 /\ Len(heap') = Len(heap) + 1
       /\ \A c \in Conns :
             /\ Leaves(c, "cleaning") /\ Members(room[c]) = {c} =>
                   pc'[c] = "removeWait" /\ heap'[room[c]].writer = c
             /\ Leaves(c, "removeWait") => pc'[c] = "removing"
             /\ Leaves(c, "removing") =>
                   rooms'[roomID[c]] = NoRoom /\ Members(room[c]) = {}]_vars

\* A room was created, had a member and is gone from the registry with its
\* last member, while the registry holds another room, which has a member,
\* and no handler is about to register or to remove a room.
C29_Witness ==
    /\ \A c \in Conns : ~Between(c) /\ ~Removing(c)
    /\ \E c, k \in Conns :
          /\ pc[c] = "done" /\ conn[c] = "closed"
          /\ Members(room[c]) = {}
          /\ rooms[roomID[c]] = NoRoom
          /\ Registered(k) /\ rooms[roomID[k]] = room[k]

\* every handler has ended, no Room has a member or a key, the registry is
\* empty
Drained ==
    /\ \A c \in Conns : pc[c] \in {"done", "absent"}
    /\ \A r \in Instances :
          DOMAIN heap[r].clients = {} /\ DOMAIN heap[r].publicKeys = {}
    /\ \A id \in RoomIDs : rooms[id] = NoRoom

\* C30: when every peer closes its end in the end and no further connection
\* arrives, under fair scheduling of the handlers and of the deliveries there
\* comes a moment from which on every handler has ended, every Room is without
\* members and without keys, and the registry is empty.
C30_DrainToEmpty == <>[]Drained

\* Everything is drained after three connections were registered in two
\* rooms: each was closed by its handler's cleanup.
C30_Witness ==
    /\ Drained
    /\ Len(heap) = 2
    /\ \A c \in Conns : conn[c] = "closed" /\ room[c] # NoRoom
    /\ inflight = EmptyBag

\* C31: single writer per connection: in no state are two calls of WriteJSON
\* on the same connection in progress, the delivery goroutines of broadcast
\* and sendToUser and the replay of the joiner's own handler counted.
C31_SingleWriter ==
    \A w \in BagToSet(writing) : ~Overlaps(w)

\* Client.listenForMessages: the key table a client builds from the frames
\* it receives, in their order: join and pubkey store the sender's key (when
\* the frame carries one), leave deletes the sender's entry.
RECURSIVE KeyTable(_)
KeyTable(received) ==
    IF received = <<>> THEN <<>>
    ELSE LET msg == received[Len(received)]
             publicKeys == KeyTable(SubSeq(received, 1, Len(received) - 1))
         IN  CASE msg.type \in {"join", "pubkey"} /\ msg.publicKey # "" ->
                    MapPut(publicKeys, msg.from, msg.publicKey)
               [] msg.type = "leave" -> MapDelete(publicKeys, msg.from)
               [] OTHER -> publicKeys

\* every handler waits for a frame or has ended, and nothing is in flight
Settled ==
    /\ inflight = EmptyBag
    /\ \A k \in Conns : pc[k] \in {"relay", "done"}

\* C32: key-table convergence: once every dispatched delivery has been
\* received, the key table a member has built from the join, pubkey and leave
\* frames written to its connection, in their order, is its Room's publicKeys
\* without the member's own entry.
C32_KeyTableConvergence ==
    Settled =>
        \A c \in Conns :
            Registered(c) /\ conn[c] = "open" =>
                KeyTable(wire[c]) = MapDelete(heap[room[c]].publicKeys, username[c])

\* the place in the script of the chat frame m
Turn(m) == CHOOSE n \in DOMAIN ChatScript : ChatScript[n] = m.payload

\* the chat envelopes of connection c1 written to connection k; each was
\* addressed to the username of k (the envelope relayed carries no `to`)
ScriptChats(k) ==
    {i \in DOMAIN wire[k] :
        wire[k][i].type = "chat" /\ wire[k][i].from = username["c1"]}

\* C33: per-pair chat order: two chat envelopes sent by one connection to the
\* same recipient username are written to the recipient's connection in the
\* order in which the sender's relay loop read them.
C33_PerPairChatOrder ==
    \A k \in Conns : \A i, j \in ScriptChats(k) :
        i < j => Turn(wire[k][i]) < Turn(wire[k][j])

\* connection a has been sent the key of connection b: by a pubkey frame of
\* its replay, or by the join announcement of b, written or in flight
KeySent(a, b) ==
    LET Carries(m) == /\ m.type \in {"join", "pubkey"}
                      /\ m.from = username[b]
                      /\ m.publicKey = join[b].publicKey
    IN  \/ \E i \in DOMAIN wire[a] : Carries(wire[a][i])
        \/ \E d \in BagToSet(inflight) : d.to = a /\ Carries(d.msg)

\* connection c is registered and its join is over: it is in its relay loop
\* or on its way to the cleanup
Joined(c) == Registered(c) /\ pc[c] \in {"relay", "deregister", "cleanupWait"}

\* C34: key exchange completeness: two connections registered in the same
\* Room, both through with their joins and both still registered, have each
\* been sent the other's public key, whatever the interleaving of their joins.
C34_KeyExchangeCompleteness ==
    \A a, b \in Conns :
        a # b /\ Joined(a) /\ Joined(b) /\ room[a] = room[b] => KeySent(a, b)

\* Of three connections that asked for a room at the same time, one was
\* turned away and two are in their relay loops in the same Room; one got
\* the other's key by the replay, the other by the announcement.
C34_Witness ==
    \E a, b \in Conns :
        /\ \E k \in Conns \ {a, b} : Notified(k)
        /\ a # b /\ room[a] = room[b]
        /\ Joined(a) /\ Joined(b)
        /\ PubkeysFor(a, b) # {} /\ JoinsSent(b, a) = 1
        /\ KeySent(a, b) /\ KeySent(b, a)

C35_Step(c) ==
    /\ Leaves(c, "deregister") /\ Registered(c) =>
          /\ c \notin DOMAIN heap'[room[c]].clients
          /\ username[c] \notin DOMAIN heap'[room[c]].publicKeys
    /\ Leaves(c, "register") /\ Holders(room[c], username[c]) = {} =>
          /\ pc'[c] = "announce"
          /\ heap'[room[c]].clients = MapPut(heap[room[c]].clients, c, username[c])
          /\ heap'[room[c]].publicKeys[username[c]] = join[c].publicKey

\* C35: username release: the cleanup of the connection registered as u in a
\* Room takes u out of the Room's publicKeys with the connection, and a join
\* as u that finds no connection registered as u in its Room (the last holder
\* has completed its cleanup) is accepted and stores the new joiner's key
\* under u.
C35_UsernameRelease == [][\A c \in Conns : C35_Step(c)]_vars

\* A connection registered under a name, left and completed its cleanup; a
\* later connection asked for the same name with the same room id, was
\* accepted and its key is the one stored under the name.
C35_Witness ==
    \E k, c \in Conns :
        /\ k # c
        /\ pc[k] = "done" /\ conn[k] = "closed" /\ CleansUp(k)
        /\ username[k] = username[c] /\ roomID[k] = roomID[c]
        /\ Registered(c) /\ pc[c] = "relay"
        /\ heap[room[c]].publicKeys[username[c]] = KeyOf(c)
        /\ KeyOf(c) # KeyOf(k)

\* the upgrade of connection c has failed: its handler ended without a handle
FailedUpgrade(c) == pc[c] = "done" /\ conn[c] = "nil"

C36_Step(c) ==
    /\ Leaves(c, "connecting") /\ conn'[c] # "open" =>
          /\ conn'[c] = "nil"
          /\ pc'[c] = "done"
          /\ rooms' = rooms /\ heap' = heap /\ mu' = mu
          /\ inflight' = inflight /\ writing' = writing /\ wire' = wire
          /\ locals' = locals /\ frames' = frames
    /\ FailedUpgrade(c) =>
          /\ pc'[c] = "done" /\ conn'[c] = "nil"
          /\ room[c] = NoRoom /\ username[c] = "" /\ wire[c] = <<>>
          /\ \A r \in Instances : c \notin Members(r)

\* C36: failed upgrade: a request whose upgrade fails gets no connection
\* handle, leaves the registry and every Room as they were, spawns and writes
\* nothing, and its handler ends there: it never reads, registers, cleans up
\* or announces anything afterwards.
C36_FailedUpgrade == [][\A c \in Conns : C36_Step(c)]_vars

\* The upgrade of one request failed; the other connection is registered and
\* in its relay loop, alone in its room, and has been sent nothing.
C36_Witness ==
    \E c, k \in Conns :
        /\ FailedUpgrade(c)
        /\ Registered(k) /\ pc[k] = "relay"
        /\ rooms[roomID[k]] = room[k] /\ Members(room[k]) = {k}
        /\ wire[k] = <<>> /\ inflight = EmptyBag

====
